---- MODULE Spec2Model ----
\* A model of hunter.py: the script that loads (or simulates and caches) the
\* membrane currents of a reconstructed neuron and composes the figure
\* hunter.pdf (main panel, colour bar, two zoom panels).  The script is one
\* sequential module body; pc is the statement about to run.  A step stands
\* for one statement, or for statements of which only the last to be able to
\* raise changes the state kept here; a from-import of several names is one
\* step per name.  The file system (the cache file)
\* outlives a run, so a run can be followed by another one.
EXTENDS Integers, Sequences, FiniteSets

VARIABLES
    pc,            \* statement about to run, "done" or "failed"
    failedAt,      \* the statement whose exception ended the run ("" if none)
    run,           \* number of the current run of the script
    fs,            \* data/neuron_simulation_data.npz on disk
    created,       \* history: the arrays held by the run that wrote the cache
    cacheState,    \* history: whether the cache file was there at line 50
    defined,       \* names bound in the module namespace
    data,          \* the NpzFile returned by np.load
    coords, t, I,  \* the three arrays
    sim,           \* history: what cell.integrate returned (before line 57)
    simCalls,      \* calls of eap.cell that returned, in order
    cacheWrites,   \* np.savez calls of this run
    S, p2p, norm,  \* derived per-segment values and the colour normalization
    normsCreated,  \* colors.LogNorm objects constructed in this run
    gca,           \* pyplot's current axes
    axesList,      \* axes of the figure, in creation order
    axlim,         \* x/y limits the script's calls gave each axes
    aspect,        \* aspect of each axes
    artists,       \* what was drawn on each axes, in call order
    frame,         \* plot_contour: arguments and return statement
    grid,          \* plot_contour: xx, yy
    vext,          \* plot_contour: the estimated field
    vext_p2p,      \* plot_contour: its peak-to-peak
    estCalls,      \* calls of field.estimate_on_grid that returned
    contourCalls,  \* calls of graph.logcontour that returned
    neuronCalls,   \* calls of graph.plot_neuron that returned
    colorbarNorm,  \* norm ids of the mappable given to plt.colorbar
    x1, x2, y1, y2,\* the zoom rectangle variables (reused by both zooms)
    rec_zoom1, rec_zoom2, \* the two Rectangle objects
    figPatches,    \* fig.patches
    pdfWrites      \* plt.savefig('hunter.pdf') calls of this run

vars == <<pc, failedAt, run, fs, created, cacheState, defined, data, coords, t, I,
          sim, simCalls, cacheWrites, S, p2p, norm, normsCreated, gca, axesList,
          axlim, aspect, artists, frame, grid, vext, vext_p2p, estCalls, contourCalls,
          neuronCalls, colorbarNorm, x1, x2, y1, y2, rec_zoom1, rec_zoom2, figPatches,
          pdfWrites>>

-----------------------------------------------------------------------------
\* Bounds of the model.
MaxSeg == 2    \* most segments / current columns
MaxT == 2    \* most samples returned by the simulator
MaxRuns == 2    \* runs of the script over the same file system

\* Program constants (times in ms).
t0 == 10
t1 == 25
Nsamp == 30
x_range == <<-550, 250>>
y_range == <<-200, 610>>
cmap == "viridis"
rho == 35       \* 3.5 Ohm.m, in tenths

\* Input domains.
TimeVals == {10, 15, 20, 25}
Amps == {0, 1}
Diams == {2}
Fields == {[min |-> 0, max |-> 0], [min |-> 2, max |-> 2], [min |-> 1, max |-> 3]}
\* limits axis('scaled') can find: those of a neuron drawn, or the default
\* ones when nothing was drawn
DataLimits == {[x |-> <<-600, 300>>, y |-> <<-250, 700>>], [x |-> <<0, 1>>, y |-> <<0, 1>>]}
AxesNames == {"ax", "ax_cbar", "ax_zoom1", "ax_zoom2"}

-----------------------------------------------------------------------------
\* Arrays.  A 2-d array is [ncols, rows]: rows is a sequence of rows, each a
\* sequence of ncols numbers (the shape (0, n) keeps its n).
SeqMin(s) == CHOOSE v \in {s[k] : k \in 1..Len(s)} : \A k \in 1..Len(s) : v <= s[k]
SeqMax(s) == CHOOSE v \in {s[k] : k \in 1..Len(s)} : \A k \in 1..Len(s) : v >= s[k]

EmptyMatrix == [ncols |-> 0, rows |-> <<>>]

\* strictly increasing sequences over TimeVals of length n
RECURSIVE IncSeqs(_)
IncSeqs(n) ==
    IF n = 0 THEN {<<>>}
    ELSE {Append(s, v) : s \in IncSeqs(n - 1), v \in TimeVals}
         \cap {s \in [1..n -> TimeVals] : \A k \in 1..(n - 1) : s[k] < s[k + 1]}
TimeSeqs == UNION {IncSeqs(n) : n \in 0..MaxT}

\* what the simulator can return: currents of n segments over the times tt
SimCurrents(tt, n, a) ==
    [ncols |-> n, rows |-> [k \in 1..Len(tt) |-> [s \in 1..n |-> a * s * tt[k]]]]
SimOutputs ==
    {[t |-> tt, I |-> SimCurrents(tt, n, a)] : tt \in TimeSeqs, n \in 0..MaxSeg, a \in Amps}
SegCoords == {[k \in 1..n |-> [diam |-> d, L |-> k]] : n \in 0..MaxSeg, d \in Diams}

\* (t > t0) & (t < t1)
MaskInclusive(tt) == [k \in 1..Len(tt) |-> (tt[k] >= t0) /\ (tt[k] < t1)]
Mask(tt) == [k \in 1..Len(tt) |-> (tt[k] > t0) /\ (tt[k] < t1)]

\* numpy boolean indexing along the first axis
BoolIndex(s, msk) ==
    LET F[k \in 0..Len(s)] ==
            IF k = 0 THEN <<>>
            ELSE IF msk[k] THEN Append(F[k - 1], s[k]) ELSE F[k - 1]
    IN F[Len(s)]

\* np.savez(simulation_filename, coords=coords, I=I, t=t): the archive maps
\* each keyword to its array
NpSavez(c, i, tt) == [present |-> TRUE, arrays |-> [coords |-> c, I |-> i, t |-> tt]]

EmptyNpz == [coords |-> <<>>, I |-> EmptyMatrix, t |-> <<>>]
NoFile == [present |-> FALSE, arrays |-> EmptyNpz]
CacheFiles == {NpSavez(c, o.I, o.t) : c \in SegCoords, o \in SimOutputs}

NoNorm == [id |-> 0, vmin |-> 0, vmax |-> 0]
NoRect == [xy |-> <<0, 0>>, width |-> 0, height |-> 0, transform |-> "none"]
NoCall == [x_range |-> <<0, 0>>, y_range |-> <<0, 0>>, n_contours |-> 0, ret |-> "none"]
NoGrid == [x_range |-> <<0, 0>>, y_range |-> <<0, 0>>, n_samp |-> 0]
NoField == [min |-> 0, max |-> 0]
NoneCreated == [valid |-> FALSE, arrays |-> EmptyNpz]

-----------------------------------------------------------------------------
\* State at the start of a run: nothing is bound, nothing is drawn.
FreshRun ==
    /\ pc = "import_numpy"
    /\ failedAt = ""
    /\ cacheState = "unknown"
    /\ defined = {}
    /\ data = EmptyNpz
    /\ coords = <<>>
    /\ t = <<>>
    /\ I = EmptyMatrix
    /\ sim = [t |-> <<>>, I |-> EmptyMatrix]
    /\ simCalls = <<>>
    /\ cacheWrites = 0
    /\ S = <<>>
    /\ p2p = <<>>
    /\ norm = NoNorm
    /\ normsCreated = 0
    /\ gca = "none"
    /\ axesList = <<>>
    /\ axlim = [a \in AxesNames |-> [x |-> <<0, 1>>, y |-> <<0, 1>>]]
    /\ aspect = [a \in AxesNames |-> "auto"]
    /\ artists = [a \in AxesNames |-> <<>>]
    /\ frame = NoCall
    /\ grid = NoGrid
    /\ vext = NoField
    /\ vext_p2p = NoField
    /\ estCalls = <<>>
    /\ contourCalls = <<>>
    /\ neuronCalls = <<>>
    /\ colorbarNorm = {}
    /\ x1 = 0
    /\ x2 = 0
    /\ y1 = 0
    /\ y2 = 0
    /\ rec_zoom1 = NoRect
    /\ rec_zoom2 = NoRect
    /\ figPatches = <<>>
    /\ pdfWrites = 0

Init ==
    /\ FreshRun
    /\ run = 1
    /\ fs \in {NoFile} \cup CacheFiles
    /\ created = NoneCreated

-----------------------------------------------------------------------------
\* Imports and parameters, lines 15-47.

\* import numpy as np
ImportNumpy ==
    /\ pc = "import_numpy"
    /\ defined' = defined \cup {"np"}
    /\ pc' = "import_pyplot"
    /\ UNCHANGED <<failedAt, run, fs, created, cacheState, data, coords, t, I, sim, simCalls,
                   cacheWrites, S, p2p, norm, normsCreated, gca, axesList, axlim, aspect,
                   artists, frame, grid, vext, vext_p2p, estCalls, contourCalls, neuronCalls,
                   colorbarNorm, x1, x2, y1, y2, rec_zoom1, rec_zoom2, figPatches, pdfWrites>>

\* import matplotlib.pyplot as plt
ImportPyplot ==
    /\ pc = "import_pyplot"
    /\ defined' = defined \cup {"plt"}
    /\ pc' = "import_colors"
    /\ UNCHANGED <<failedAt, run, fs, created, cacheState, data, coords, t, I, sim, simCalls,
                   cacheWrites, S, p2p, norm, normsCreated, gca, axesList, axlim, aspect,
                   artists, frame, grid, vext, vext_p2p, estCalls, contourCalls, neuronCalls,
                   colorbarNorm, x1, x2, y1, y2, rec_zoom1, rec_zoom2, figPatches, pdfWrites>>

\* from matplotlib import colors, ticker, patches: the names are fetched and
\* bound one after the other; first the package is imported and colors bound
ImportColors ==
    /\ pc = "import_colors"
    /\ defined' = defined \cup {"colors"}
    /\ pc' = "import_ticker"
    /\ UNCHANGED <<failedAt, run, fs, created, cacheState, data, coords, t, I, sim, simCalls,
                   cacheWrites, S, p2p, norm, normsCreated, gca, axesList, axlim, aspect,
                   artists, frame, grid, vext, vext_p2p, estCalls, contourCalls, neuronCalls,
                   colorbarNorm, x1, x2, y1, y2, rec_zoom1, rec_zoom2, figPatches, pdfWrites>>

\* ... then ticker
ImportTicker ==
    /\ pc = "import_ticker"
    /\ defined' = defined \cup {"ticker"}
    /\ pc' = "import_patches"
    /\ UNCHANGED <<failedAt, run, fs, created, cacheState, data, coords, t, I, sim, simCalls,
                   cacheWrites, S, p2p, norm, normsCreated, gca, axesList, axlim, aspect,
                   artists, frame, grid, vext, vext_p2p, estCalls, contourCalls, neuronCalls,
                   colorbarNorm, x1, x2, y1, y2, rec_zoom1, rec_zoom2, figPatches, pdfWrites>>

\* ... then patches
ImportPatches ==
    /\ pc = "import_patches"
    /\ defined' = defined \cup {"patches"}
    /\ pc' = "import_cm"
    /\ UNCHANGED <<failedAt, run, fs, created, cacheState, data, coords, t, I, sim, simCalls,
                   cacheWrites, S, p2p, norm, normsCreated, gca, axesList, axlim, aspect,
                   artists, frame, grid, vext, vext_p2p, estCalls, contourCalls, neuronCalls,
                   colorbarNorm, x1, x2, y1, y2, rec_zoom1, rec_zoom2, figPatches, pdfWrites>>

\* from matplotlib import cm
ImportCm ==
    /\ pc = "import_cm"
    /\ defined' = defined \cup {"cm"}
    /\ pc' = "import_field"
    /\ UNCHANGED <<failedAt, run, fs, created, cacheState, data, coords, t, I, sim, simCalls,
                   cacheWrites, S, p2p, norm, normsCreated, gca, axesList, axlim, aspect,
                   artists, frame, grid, vext, vext_p2p, estCalls, contourCalls, neuronCalls,
                   colorbarNorm, x1, x2, y1, y2, rec_zoom1, rec_zoom2, figPatches, pdfWrites>>

\* from eap import field, graph: the package is imported and field bound
ImportField ==
    /\ pc = "import_field"
    /\ defined' = defined \cup {"field"}
    /\ pc' = "import_graph"
    /\ UNCHANGED <<failedAt, run, fs, created, cacheState, data, coords, t, I, sim, simCalls,
                   cacheWrites, S, p2p, norm, normsCreated, gca, axesList, axlim, aspect,
                   artists, frame, grid, vext, vext_p2p, estCalls, contourCalls, neuronCalls,
                   colorbarNorm, x1, x2, y1, y2, rec_zoom1, rec_zoom2, figPatches, pdfWrites>>

\* ... then graph
ImportGraph ==
    /\ pc = "import_graph"
    /\ defined' = defined \cup {"graph"}
    /\ pc' = "setup"
    /\ UNCHANGED <<failedAt, run, fs, created, cacheState, data, coords, t, I, sim, simCalls,
                   cacheWrites, S, p2p, norm, normsCreated, gca, axesList, axlim, aspect,
                   artists, frame, grid, vext, vext_p2p, estCalls, contourCalls, neuronCalls,
                   colorbarNorm, x1, x2, y1, y2, rec_zoom1, rec_zoom2, figPatches, pdfWrites>>

\* import os; import platform; ARCH = platform.machine(); def plot_contour;
\* the parameters dt ... bg_color
Setup ==
    /\ pc = "setup"
    /\ defined' = defined \cup {"os", "platform", "ARCH", "plot_contour", "dt", "tstop", "t0", "t1", "rho", "cutoff", "order", "Nsamp", "filter", "y_range", "x_range", "bg_color"}
    /\ pc' = "cmap"
    /\ UNCHANGED <<failedAt, run, fs, created, cacheState, data, coords, t, I, sim, simCalls,
                   cacheWrites, S, p2p, norm, normsCreated, gca, axesList, axlim, aspect,
                   artists, frame, grid, vext, vext_p2p, estCalls, contourCalls, neuronCalls,
                   colorbarNorm, x1, x2, y1, y2, rec_zoom1, rec_zoom2, figPatches, pdfWrites>>

\* cmap = cm.viridis; simulation_filename = ...
Cmap ==
    /\ pc = "cmap"
    /\ defined' = defined \cup {"cmap", "simulation_filename"}
    /\ pc' = "check_cache"
    /\ UNCHANGED <<failedAt, run, fs, created, cacheState, data, coords, t, I, sim, simCalls,
                   cacheWrites, S, p2p, norm, normsCreated, gca, axesList, axlim, aspect,
                   artists, frame, grid, vext, vext_p2p, estCalls, contourCalls, neuronCalls,
                   colorbarNorm, x1, x2, y1, y2, rec_zoom1, rec_zoom2, figPatches, pdfWrites>>

-----------------------------------------------------------------------------
\* Simulation block, lines 49-64.

\* not os.path.exists(simulation_filename)
CacheMissingNegated(f) == f.present
CacheMissing(f) == ~f.present

\* if not os.path.exists(simulation_filename):
CheckCache ==
    /\ pc = "check_cache"
    /\ cacheState' = IF fs.present THEN "present" ELSE "absent"
    /\ pc' = IF CacheMissing(fs) THEN "import_cell" ELSE "np_load"
    /\ UNCHANGED <<failedAt, run, fs, created, defined, data, coords, t, I, sim, simCalls,
                   cacheWrites, S, p2p, norm, normsCreated, gca, axesList, axlim, aspect,
                   artists, frame, grid, vext, vext_p2p, estCalls, contourCalls, neuronCalls,
                   colorbarNorm, x1, x2, y1, y2, rec_zoom1, rec_zoom2, figPatches, pdfWrites>>

\* from eap import cell
ImportCell ==
    /\ pc = "import_cell"
    /\ defined' = defined \cup {"cell"}
    /\ pc' = "load_model"
    /\ UNCHANGED <<failedAt, run, fs, created, cacheState, data, coords, t, I, sim, simCalls,
                   cacheWrites, S, p2p, norm, normsCreated, gca, axesList, axlim, aspect,
                   artists, frame, grid, vext, vext_p2p, estCalls, contourCalls, neuronCalls,
                   colorbarNorm, x1, x2, y1, y2, rec_zoom1, rec_zoom2, figPatches, pdfWrites>>

\* cell.load_model(...)
LoadModel ==
    /\ pc = "load_model"
    /\ simCalls' = Append(simCalls, "load_model")
    /\ pc' = "initialize"
    /\ UNCHANGED <<failedAt, run, fs, created, cacheState, defined, data, coords, t, I, sim,
                   cacheWrites, S, p2p, norm, normsCreated, gca, axesList, axlim, aspect,
                   artists, frame, grid, vext, vext_p2p, estCalls, contourCalls, neuronCalls,
                   colorbarNorm, x1, x2, y1, y2, rec_zoom1, rec_zoom2, figPatches, pdfWrites>>

\* cell.initialize(dt=dt)
Initialize ==
    /\ pc = "initialize"
    /\ simCalls' = Append(simCalls, "initialize")
    /\ pc' = "integrate"
    /\ UNCHANGED <<failedAt, run, fs, created, cacheState, defined, data, coords, t, I, sim,
                   cacheWrites, S, p2p, norm, normsCreated, gca, axesList, axlim, aspect,
                   artists, frame, grid, vext, vext_p2p, estCalls, contourCalls, neuronCalls,
                   colorbarNorm, x1, x2, y1, y2, rec_zoom1, rec_zoom2, figPatches, pdfWrites>>

\* t, I = cell.integrate(tstop)
Integrate ==
    /\ pc = "integrate"
    /\ \E o \in SimOutputs :
          /\ t' = o.t
          /\ I' = o.I
          /\ sim' = o
    /\ simCalls' = Append(simCalls, "integrate")
    /\ defined' = defined \cup {"t", "I"}
    /\ pc' = "get_seg_coords"
    /\ UNCHANGED <<failedAt, run, fs, created, cacheState, data, coords, cacheWrites, S, p2p,
                   norm, normsCreated, gca, axesList, axlim, aspect, artists, frame, grid, vext,
                   vext_p2p, estCalls, contourCalls, neuronCalls, colorbarNorm, x1, x2, y1, y2,
                   rec_zoom1, rec_zoom2, figPatches, pdfWrites>>

\* coords = cell.get_seg_coords()
GetSegCoords ==
    /\ pc = "get_seg_coords"
    /\ \E c \in SegCoords : coords' = c
    /\ simCalls' = Append(simCalls, "get_seg_coords")
    /\ defined' = defined \cup {"coords"}
    /\ pc' = "restrict_I"
    /\ UNCHANGED <<failedAt, run, fs, created, cacheState, data, t, I, sim, cacheWrites, S, p2p,
                   norm, normsCreated, gca, axesList, axlim, aspect, artists, frame, grid, vext,
                   vext_p2p, estCalls, contourCalls, neuronCalls, colorbarNorm, x1, x2, y1, y2,
                   rec_zoom1, rec_zoom2, figPatches, pdfWrites>>

\* I = I[(t > t0) & (t < t1)]
RestrictI ==
    /\ pc = "restrict_I"
    /\ I' = [ncols |-> I.ncols, rows |-> BoolIndex(I.rows, Mask(t))]
    /\ pc' = "restrict_t"
    /\ UNCHANGED <<failedAt, run, fs, created, cacheState, defined, data, coords, t, sim,
                   simCalls, cacheWrites, S, p2p, norm, normsCreated, gca, axesList, axlim,
                   aspect, artists, frame, grid, vext, vext_p2p, estCalls, contourCalls,
                   neuronCalls, colorbarNorm, x1, x2, y1, y2, rec_zoom1, rec_zoom2, figPatches,
                   pdfWrites>>

\* t = t[(t > t0) & (t < t1)]
RestrictT ==
    /\ pc = "restrict_t"
    /\ t' = BoolIndex(t, Mask(t))
    /\ pc' = "savez"
    /\ UNCHANGED <<failedAt, run, fs, created, cacheState, defined, data, coords, I, sim,
                   simCalls, cacheWrites, S, p2p, norm, normsCreated, gca, axesList, axlim,
                   aspect, artists, frame, grid, vext, vext_p2p, estCalls, contourCalls,
                   neuronCalls, colorbarNorm, x1, x2, y1, y2, rec_zoom1, rec_zoom2, figPatches,
                   pdfWrites>>

\* the arrays stored as the simulator returned them
SavezUnrestricted ==
    /\ pc = "savez"
    /\ fs' = NpSavez(coords, sim.I, sim.t)
    /\ cacheWrites' = cacheWrites + 1
    /\ created' = [valid |-> TRUE, arrays |-> [coords |-> coords, I |-> I, t |-> t]]
    /\ pc' = "figure"
    /\ UNCHANGED <<failedAt, run, cacheState, defined, data, coords, t, I, sim, simCalls, S, p2p,
                   norm, normsCreated, gca, axesList, axlim, aspect, artists, frame, grid, vext,
                   vext_p2p, estCalls, contourCalls, neuronCalls, colorbarNorm, x1, x2, y1, y2,
                   rec_zoom1, rec_zoom2, figPatches, pdfWrites>>

\* np.savez(simulation_filename, coords=coords, I=I, t=t)
Savez ==
    /\ pc = "savez"
    /\ fs' = NpSavez(coords, I, t)
    /\ cacheWrites' = cacheWrites + 1
    /\ created' = [valid |-> TRUE, arrays |-> [coords |-> coords, I |-> I, t |-> t]]
    /\ pc' = "figure"
    /\ UNCHANGED <<failedAt, run, cacheState, defined, data, coords, t, I, sim, simCalls, S, p2p,
                   norm, normsCreated, gca, axesList, axlim, aspect, artists, frame, grid, vext,
                   vext_p2p, estCalls, contourCalls, neuronCalls, colorbarNorm, x1, x2, y1, y2,
                   rec_zoom1, rec_zoom2, figPatches, pdfWrites>>

\* data = np.load(simulation_filename)
NpLoad ==
    /\ pc = "np_load"
    /\ fs.present
    /\ data' = fs.arrays
    /\ defined' = defined \cup {"data"}
    /\ pc' = "load_coords"
    /\ UNCHANGED <<failedAt, run, fs, created, cacheState, coords, t, I, sim, simCalls,
                   cacheWrites, S, p2p, norm, normsCreated, gca, axesList, axlim, aspect,
                   artists, frame, grid, vext, vext_p2p, estCalls, contourCalls, neuronCalls,
                   colorbarNorm, x1, x2, y1, y2, rec_zoom1, rec_zoom2, figPatches, pdfWrites>>

\* coords = data['coords']
LoadCoords ==
    /\ pc = "load_coords"
    /\ coords' = data["coords"]
    /\ defined' = defined \cup {"coords"}
    /\ pc' = "load_t"
    /\ UNCHANGED <<failedAt, run, fs, created, cacheState, data, t, I, sim, simCalls,
                   cacheWrites, S, p2p, norm, normsCreated, gca, axesList, axlim, aspect,
                   artists, frame, grid, vext, vext_p2p, estCalls, contourCalls, neuronCalls,
                   colorbarNorm, x1, x2, y1, y2, rec_zoom1, rec_zoom2, figPatches, pdfWrites>>

\* t = data['t']
LoadT ==
    /\ pc = "load_t"
    /\ t' = data["t"]
    /\ defined' = defined \cup {"t"}
    /\ pc' = "load_I"
    /\ UNCHANGED <<failedAt, run, fs, created, cacheState, data, coords, I, sim, simCalls,
                   cacheWrites, S, p2p, norm, normsCreated, gca, axesList, axlim, aspect,
                   artists, frame, grid, vext, vext_p2p, estCalls, contourCalls, neuronCalls,
                   colorbarNorm, x1, x2, y1, y2, rec_zoom1, rec_zoom2, figPatches, pdfWrites>>

\* I = data['I']
LoadI ==
    /\ pc = "load_I"
    /\ I' = data["I"]
    /\ defined' = defined \cup {"I"}
    /\ pc' = "figure"
    /\ UNCHANGED <<failedAt, run, fs, created, cacheState, data, coords, t, sim, simCalls,
                   cacheWrites, S, p2p, norm, normsCreated, gca, axesList, axlim, aspect,
                   artists, frame, grid, vext, vext_p2p, estCalls, contourCalls, neuronCalls,
                   colorbarNorm, x1, x2, y1, y2, rec_zoom1, rec_zoom2, figPatches, pdfWrites>>

-----------------------------------------------------------------------------
\* def plot_contour(x_range, y_range, n_contours=15), lines 26-30.  frame holds
\* the arguments and the statement to return to.

Draw(ax, kinds) == [artists EXCEPT ![ax] = @ \o kinds]

Call(xr, yr, n, ret) == [x_range |-> xr, y_range |-> yr, n_contours |-> n, ret |-> ret]

\* field.estimate_on_grid(coords, I, xx, yy): the two arrays and the grid, and
\* no resistivity; panel is the current axes at the time of the call
EstimateCall ==
    [panel |-> gca, nseg |-> Len(coords), ncur |-> I.ncols,
     x_range |-> grid.x_range, y_range |-> grid.y_range, n_samp |-> grid.n_samp,
     resistivity |-> {}]

\* graph.logcontour(xx, yy, vext_p2p, n_contours=n_contours, ...)
ContourCall ==
    [axes |-> gca, x_range |-> grid.x_range, y_range |-> grid.y_range,
     zz |-> vext_p2p, n_contours |-> frame.n_contours]

\* xx, yy = field.calc_grid(x_range, y_range, n_samp=Nsamp)
CalcGrid ==
    /\ pc = "pc_grid"
    /\ grid' = [x_range |-> frame.x_range, y_range |-> frame.y_range, n_samp |-> Nsamp]
    /\ pc' = "pc_estimate"
    /\ UNCHANGED <<failedAt, run, fs, created, cacheState, defined, data, coords, t, I, sim,
                   simCalls, cacheWrites, S, p2p, norm, normsCreated, gca, axesList, axlim,
                   aspect, artists, frame, vext, vext_p2p, estCalls, contourCalls, neuronCalls,
                   colorbarNorm, x1, x2, y1, y2, rec_zoom1, rec_zoom2, figPatches, pdfWrites>>

\* vext = field.estimate_on_grid(coords, I, xx, yy): the field is whatever the
\* estimator returns for the data, known here by its peak-to-peak extremes
EstimateOnGrid ==
    /\ pc = "pc_estimate"
    /\ {"coords", "I"} \subseteq defined
    /\ estCalls' = Append(estCalls, EstimateCall)
    /\ \E zz \in Fields : vext' = zz
    /\ pc' = "pc_p2p"
    /\ UNCHANGED <<failedAt, run, fs, created, cacheState, defined, data, coords, t, I, sim,
                   simCalls, cacheWrites, S, p2p, norm, normsCreated, gca, axesList, axlim,
                   aspect, artists, frame, grid, vext_p2p, contourCalls, neuronCalls,
                   colorbarNorm, x1, x2, y1, y2, rec_zoom1, rec_zoom2, figPatches, pdfWrites>>

\* vext_p2p = vext.max(0) - vext.min(0)
VextP2P ==
    /\ pc = "pc_p2p"
    /\ vext_p2p' = vext
    /\ pc' = "pc_logcontour"
    /\ UNCHANGED <<failedAt, run, fs, created, cacheState, defined, data, coords, t, I, sim,
                   simCalls, cacheWrites, S, p2p, norm, normsCreated, gca, axesList, axlim,
                   aspect, artists, frame, grid, vext, estCalls, contourCalls, neuronCalls,
                   colorbarNorm, x1, x2, y1, y2, rec_zoom1, rec_zoom2, figPatches, pdfWrites>>

\* graph.logcontour(...): always called; then return
LogContour ==
    /\ pc = "pc_logcontour"
    /\ contourCalls' = Append(contourCalls, ContourCall)
    /\ artists' = Draw(gca, <<"contour">>)
    /\ pc' = frame.ret
    /\ UNCHANGED <<failedAt, run, fs, created, cacheState, defined, data, coords, t, I, sim,
                   simCalls, cacheWrites, S, p2p, norm, normsCreated, gca, axesList, axlim,
                   aspect, frame, grid, vext, vext_p2p, estCalls, neuronCalls, colorbarNorm, x1,
                   x2, y1, y2, rec_zoom1, rec_zoom2, figPatches, pdfWrites>>

-----------------------------------------------------------------------------
\* Plots, lines 66-153.

\* The arguments of graph.plot_neuron(coords, p2p, norm=norm, ..., cmap=cmap)
PlotNeuronCallRenorm(ax, n) ==
    [axes |-> ax, nseg |-> Len(coords), np2p |-> Len(p2p),
     norm |-> [id |-> n.id + Len(neuronCalls), vmin |-> n.vmin, vmax |-> n.vmax],
     cmap |-> cmap]
PlotNeuronCall(ax, n) ==
    [axes |-> ax, nseg |-> Len(coords), np2p |-> Len(p2p), norm |-> n, cmap |-> cmap]

\* patches.Rectangle((x1, y1), x2-x1, y2-y1, transform=ax.transData, ...)
RectangleNoSubtract(xa, xb, ya, yb) ==
    [xy |-> <<xa, ya>>, width |-> xb, height |-> yb, transform |-> "ax.transData"]
Rectangle(xa, xb, ya, yb) ==
    [xy |-> <<xa, ya>>, width |-> xb - xa, height |-> yb - ya, transform |-> "ax.transData"]

SetXlim(lim) == [axlim EXCEPT ![gca].x = lim]
SetYlim(lim) == [axlim EXCEPT ![gca].y = lim]

Column(mat, s) == [k \in 1..Len(mat.rows) |-> mat.rows[k][s]]
\* I.max(0) - I.min(0)
PeakToPeak(mat) == [s \in 1..mat.ncols |-> SeqMax(Column(mat, s)) - SeqMin(Column(mat, s))]

\* colors.LogNorm(vmin=p2p.min(), vmax=p2p.max())
LogNorm(id, p) == [id |-> id, vmin |-> SeqMin(p), vmax |-> SeqMax(p)]

\* fig = plt.figure(figsize=(6,6), facecolor=bg_color)
Figure ==
    /\ pc = "figure"
    /\ defined' = defined \cup {"fig"}
    /\ pc' = "subplot"
    /\ UNCHANGED <<failedAt, run, fs, created, cacheState, data, coords, t, I, sim, simCalls,
                   cacheWrites, S, p2p, norm, normsCreated, gca, axesList, axlim, aspect,
                   artists, frame, grid, vext, vext_p2p, estCalls, contourCalls, neuronCalls,
                   colorbarNorm, x1, x2, y1, y2, rec_zoom1, rec_zoom2, figPatches, pdfWrites>>

\* fig.subplots_adjust(...); ax = plt.subplot(111, frameon=False)
Subplot ==
    /\ pc = "subplot"
    /\ axesList' = Append(axesList, "ax")
    /\ gca' = "ax"
    /\ defined' = defined \cup {"ax"}
    /\ pc' = "contour_main"
    /\ UNCHANGED <<failedAt, run, fs, created, cacheState, data, coords, t, I, sim, simCalls,
                   cacheWrites, S, p2p, norm, normsCreated, axlim, aspect, artists, frame, grid,
                   vext, vext_p2p, estCalls, contourCalls, neuronCalls, colorbarNorm, x1, x2, y1,
                   y2, rec_zoom1, rec_zoom2, figPatches, pdfWrites>>

\* plot_contour(x_range, y_range, 5)
ContourMain ==
    /\ pc = "contour_main"
    /\ frame' = Call(x_range, y_range, 5, "seg_surface")
    /\ pc' = "pc_grid"
    /\ UNCHANGED <<failedAt, run, fs, created, cacheState, defined, data, coords, t, I, sim,
                   simCalls, cacheWrites, S, p2p, norm, normsCreated, gca, axesList, axlim,
                   aspect, artists, grid, vext, vext_p2p, estCalls, contourCalls, neuronCalls,
                   colorbarNorm, x1, x2, y1, y2, rec_zoom1, rec_zoom2, figPatches, pdfWrites>>

\* S = np.pi*coords['diam']*coords['L'], in units of pi
SegSurface ==
    /\ pc = "seg_surface"
    /\ S' = [k \in 1..Len(coords) |-> coords[k].diam * coords[k].L]
    /\ defined' = defined \cup {"S"}
    /\ pc' = "p2p"
    /\ UNCHANGED <<failedAt, run, fs, created, cacheState, data, coords, t, I, sim, simCalls,
                   cacheWrites, p2p, norm, normsCreated, gca, axesList, axlim, aspect, artists,
                   frame, grid, vext, vext_p2p, estCalls, contourCalls, neuronCalls,
                   colorbarNorm, x1, x2, y1, y2, rec_zoom1, rec_zoom2, figPatches, pdfWrites>>

\* p2p = I.max(0) - I.min(0): a reduction over zero rows raises when there is
\* a column to fill; with no column either the reduction raises or is empty
P2P ==
    /\ pc = "p2p"
    /\ \/ /\ Len(I.rows) > 0
          /\ p2p' = PeakToPeak(I)
          /\ defined' = defined \cup {"p2p"}
          /\ pc' = "norm" /\ UNCHANGED failedAt
       \/ /\ Len(I.rows) = 0 /\ I.ncols = 0
          /\ p2p' = <<>>
          /\ defined' = defined \cup {"p2p"}
          /\ pc' = "norm" /\ UNCHANGED failedAt
       \/ /\ Len(I.rows) = 0
          /\ pc' = "failed" /\ failedAt' = pc
          /\ UNCHANGED <<p2p, defined>>
    /\ UNCHANGED <<run, fs, created, cacheState, data, coords, t, I, sim, simCalls, cacheWrites,
                   S, norm, normsCreated, gca, axesList, axlim, aspect, artists, frame, grid,
                   vext, vext_p2p, estCalls, contourCalls, neuronCalls, colorbarNorm, x1, x2, y1,
                   y2, rec_zoom1, rec_zoom2, figPatches, pdfWrites>>

\* norm = colors.LogNorm(vmin=p2p.min(), vmax=p2p.max()): min of an empty
\* array raises
Norm ==
    /\ pc = "norm"
    /\ \/ /\ Len(p2p) > 0
          /\ norm' = LogNorm(normsCreated + 1, p2p)
          /\ normsCreated' = normsCreated + 1
          /\ defined' = defined \cup {"norm"}
          /\ pc' = "neuron_main" /\ UNCHANGED failedAt
       \/ /\ Len(p2p) = 0
          /\ pc' = "failed" /\ failedAt' = pc
          /\ UNCHANGED <<norm, normsCreated, defined>>
    /\ UNCHANGED <<run, fs, created, cacheState, data, coords, t, I, sim, simCalls, cacheWrites,
                   S, p2p, gca, axesList, axlim, aspect, artists, frame, grid, vext, vext_p2p,
                   estCalls, contourCalls, neuronCalls, colorbarNorm, x1, x2, y1, y2, rec_zoom1,
                   rec_zoom2, figPatches, pdfWrites>>

\* col = graph.plot_neuron(coords, p2p, norm=norm, ...)
NeuronMain ==
    /\ pc = "neuron_main"
    /\ {"coords", "p2p", "norm"} \subseteq defined
    /\ neuronCalls' = Append(neuronCalls, PlotNeuronCall(gca, norm))
    /\ artists' = Draw(gca, <<"neuron">>)
    /\ defined' = defined \cup {"col"}
    /\ pc' = "main_xlim"
    /\ UNCHANGED <<failedAt, run, fs, created, cacheState, data, coords, t, I, sim, simCalls,
                   cacheWrites, S, p2p, norm, normsCreated, gca, axesList, axlim, aspect, frame,
                   grid, vext, vext_p2p, estCalls, contourCalls, colorbarNorm, x1, x2, y1, y2,
                   rec_zoom1, rec_zoom2, figPatches, pdfWrites>>

\* plt.xticks([]); plt.yticks([]); plt.xlim(x_range)
MainXlim ==
    /\ pc = "main_xlim"
    /\ axlim' = SetXlim(x_range)
    /\ pc' = "main_ylim"
    /\ UNCHANGED <<failedAt, run, fs, created, cacheState, defined, data, coords, t, I, sim,
                   simCalls, cacheWrites, S, p2p, norm, normsCreated, gca, axesList, aspect,
                   artists, frame, grid, vext, vext_p2p, estCalls, contourCalls, neuronCalls,
                   colorbarNorm, x1, x2, y1, y2, rec_zoom1, rec_zoom2, figPatches, pdfWrites>>

\* plt.ylim(y_range)
MainYlim ==
    /\ pc = "main_ylim"
    /\ axlim' = SetYlim(y_range)
    /\ pc' = "scalebar_vars"
    /\ UNCHANGED <<failedAt, run, fs, created, cacheState, defined, data, coords, t, I, sim,
                   simCalls, cacheWrites, S, p2p, norm, normsCreated, gca, axesList, aspect,
                   artists, frame, grid, vext, vext_p2p, estCalls, contourCalls, neuronCalls,
                   colorbarNorm, x1, x2, y1, y2, rec_zoom1, rec_zoom2, figPatches, pdfWrites>>

\* xp, yp = -500, -100; w, h = 100, 100
ScalebarVars ==
    /\ pc = "scalebar_vars"
    /\ defined' = defined \cup {"xp", "yp", "w", "h"}
    /\ pc' = "scalebar_line1"
    /\ UNCHANGED <<failedAt, run, fs, created, cacheState, data, coords, t, I, sim, simCalls,
                   cacheWrites, S, p2p, norm, normsCreated, gca, axesList, axlim, aspect,
                   artists, frame, grid, vext, vext_p2p, estCalls, contourCalls, neuronCalls,
                   colorbarNorm, x1, x2, y1, y2, rec_zoom1, rec_zoom2, figPatches, pdfWrites>>

\* plt.plot([xp, xp], [yp, yp+h], 'k-')
ScalebarLine1 ==
    /\ pc = "scalebar_line1"
    /\ artists' = Draw(gca, <<"line">>)
    /\ pc' = "scalebar_line2"
    /\ UNCHANGED <<failedAt, run, fs, created, cacheState, defined, data, coords, t, I, sim,
                   simCalls, cacheWrites, S, p2p, norm, normsCreated, gca, axesList, axlim,
                   aspect, frame, grid, vext, vext_p2p, estCalls, contourCalls, neuronCalls,
                   colorbarNorm, x1, x2, y1, y2, rec_zoom1, rec_zoom2, figPatches, pdfWrites>>

\* plt.plot([xp, xp+h], [yp, yp], 'k-')
ScalebarLine2 ==
    /\ pc = "scalebar_line2"
    /\ artists' = Draw(gca, <<"line">>)
    /\ pc' = "scalebar_text1"
    /\ UNCHANGED <<failedAt, run, fs, created, cacheState, defined, data, coords, t, I, sim,
                   simCalls, cacheWrites, S, p2p, norm, normsCreated, gca, axesList, axlim,
                   aspect, frame, grid, vext, vext_p2p, estCalls, contourCalls, neuronCalls,
                   colorbarNorm, x1, x2, y1, y2, rec_zoom1, rec_zoom2, figPatches, pdfWrites>>

\* plt.text(xp-10, yp+h/2., ...)
ScalebarText1 ==
    /\ pc = "scalebar_text1"
    /\ artists' = Draw(gca, <<"text">>)
    /\ pc' = "scalebar_text2"
    /\ UNCHANGED <<failedAt, run, fs, created, cacheState, defined, data, coords, t, I, sim,
                   simCalls, cacheWrites, S, p2p, norm, normsCreated, gca, axesList, axlim,
                   aspect, frame, grid, vext, vext_p2p, estCalls, contourCalls, neuronCalls,
                   colorbarNorm, x1, x2, y1, y2, rec_zoom1, rec_zoom2, figPatches, pdfWrites>>

\* plt.text(xp+h/2., yp-10, ...)
ScalebarText2 ==
    /\ pc = "scalebar_text2"
    /\ artists' = Draw(gca, <<"text">>)
    /\ pc' = "cbar_axes"
    /\ UNCHANGED <<failedAt, run, fs, created, cacheState, defined, data, coords, t, I, sim,
                   simCalls, cacheWrites, S, p2p, norm, normsCreated, gca, axesList, axlim,
                   aspect, frame, grid, vext, vext_p2p, estCalls, contourCalls, neuronCalls,
                   colorbarNorm, x1, x2, y1, y2, rec_zoom1, rec_zoom2, figPatches, pdfWrites>>

\* ax_cbar = plt.axes([0.8, 0.15, 0.02, 0.3], frameon=False)
CbarAxes ==
    /\ pc = "cbar_axes"
    /\ axesList' = Append(axesList, "ax_cbar")
    /\ gca' = "ax_cbar"
    /\ defined' = defined \cup {"ax_cbar"}
    /\ pc' = "cbar_fmt"
    /\ UNCHANGED <<failedAt, run, fs, created, cacheState, data, coords, t, I, sim, simCalls,
                   cacheWrites, S, p2p, norm, normsCreated, axlim, aspect, artists, frame, grid,
                   vext, vext_p2p, estCalls, contourCalls, neuronCalls, colorbarNorm, x1, x2, y1,
                   y2, rec_zoom1, rec_zoom2, figPatches, pdfWrites>>

\* fmt = ticker.LogFormatterMathtext()
CbarFmt ==
    /\ pc = "cbar_fmt"
    /\ defined' = defined \cup {"fmt"}
    /\ pc' = "colorbar"
    /\ UNCHANGED <<failedAt, run, fs, created, cacheState, data, coords, t, I, sim, simCalls,
                   cacheWrites, S, p2p, norm, normsCreated, gca, axesList, axlim, aspect,
                   artists, frame, grid, vext, vext_p2p, estCalls, contourCalls, neuronCalls,
                   colorbarNorm, x1, x2, y1, y2, rec_zoom1, rec_zoom2, figPatches, pdfWrites>>

\* fmt.create_dummy_axis(); cbar = plt.colorbar(col, format=fmt, cax=ax_cbar)
Colorbar ==
    /\ pc = "colorbar"
    /\ "col" \in defined
    /\ colorbarNorm' = {neuronCalls[1].norm.id}
    /\ artists' = Draw("ax_cbar", <<"colorbar">>)
    /\ defined' = defined \cup {"cbar"}
    /\ pc' = "label1"
    /\ UNCHANGED <<failedAt, run, fs, created, cacheState, data, coords, t, I, sim, simCalls,
                   cacheWrites, S, p2p, norm, normsCreated, gca, axesList, axlim, aspect, frame,
                   grid, vext, vext_p2p, estCalls, contourCalls, neuronCalls, x1, x2, y1, y2,
                   rec_zoom1, rec_zoom2, figPatches, pdfWrites>>

\* cbar.ax.set_ylabel(...); cbar.outline.set_visible(False);
\* plt.text(-50, -120, "dendrites", ...) on the current axes
Label1 ==
    /\ pc = "label1"
    /\ artists' = Draw(gca, <<"text">>)
    /\ pc' = "label2"
    /\ UNCHANGED <<failedAt, run, fs, created, cacheState, defined, data, coords, t, I, sim,
                   simCalls, cacheWrites, S, p2p, norm, normsCreated, gca, axesList, axlim,
                   aspect, frame, grid, vext, vext_p2p, estCalls, contourCalls, neuronCalls,
                   colorbarNorm, x1, x2, y1, y2, rec_zoom1, rec_zoom2, figPatches, pdfWrites>>

\* plt.text(-390, 530, "dendrites", ...)
Label2 ==
    /\ pc = "label2"
    /\ artists' = Draw(gca, <<"text">>)
    /\ pc' = "label3"
    /\ UNCHANGED <<failedAt, run, fs, created, cacheState, defined, data, coords, t, I, sim,
                   simCalls, cacheWrites, S, p2p, norm, normsCreated, gca, axesList, axlim,
                   aspect, frame, grid, vext, vext_p2p, estCalls, contourCalls, neuronCalls,
                   colorbarNorm, x1, x2, y1, y2, rec_zoom1, rec_zoom2, figPatches, pdfWrites>>

\* plt.text(-140, -200, "axon", ...)
Label3 ==
    /\ pc = "label3"
    /\ artists' = Draw(gca, <<"text">>)
    /\ pc' = "zoom1_axes"
    /\ UNCHANGED <<failedAt, run, fs, created, cacheState, defined, data, coords, t, I, sim,
                   simCalls, cacheWrites, S, p2p, norm, normsCreated, gca, axesList, axlim,
                   aspect, frame, grid, vext, vext_p2p, estCalls, contourCalls, neuronCalls,
                   colorbarNorm, x1, x2, y1, y2, rec_zoom1, rec_zoom2, figPatches, pdfWrites>>

\* ax_zoom1 = plt.axes([0.15, 0.5, 0.2, 0.2], axisbg=bg_color)
Zoom1Axes ==
    /\ pc = "zoom1_axes"
    /\ axesList' = Append(axesList, "ax_zoom1")
    /\ gca' = "ax_zoom1"
    /\ defined' = defined \cup {"ax_zoom1"}
    /\ pc' = "neuron_zoom1"
    /\ UNCHANGED <<failedAt, run, fs, created, cacheState, data, coords, t, I, sim, simCalls,
                   cacheWrites, S, p2p, norm, normsCreated, axlim, aspect, artists, frame, grid,
                   vext, vext_p2p, estCalls, contourCalls, neuronCalls, colorbarNorm, x1, x2, y1,
                   y2, rec_zoom1, rec_zoom2, figPatches, pdfWrites>>

\* graph.plot_neuron(coords, p2p, norm=norm, ...) on the soma zoom
NeuronZoom1 ==
    /\ pc = "neuron_zoom1"
    /\ {"coords", "p2p", "norm"} \subseteq defined
    /\ neuronCalls' = Append(neuronCalls, PlotNeuronCall(gca, norm))
    /\ artists' = Draw(gca, <<"neuron">>)
    /\ pc' = "zoom1_scaled"
    /\ UNCHANGED <<failedAt, run, fs, created, cacheState, defined, data, coords, t, I, sim,
                   simCalls, cacheWrites, S, p2p, norm, normsCreated, gca, axesList, axlim,
                   aspect, frame, grid, vext, vext_p2p, estCalls, contourCalls, colorbarNorm, x1,
                   x2, y1, y2, rec_zoom1, rec_zoom2, figPatches, pdfWrites>>

\* plt.axis('scaled'): the limits become those of the data drawn, the aspect equal
Zoom1Scaled ==
    /\ pc = "zoom1_scaled"
    /\ \E lim \in DataLimits : axlim' = [axlim EXCEPT ![gca] = lim]
    /\ aspect' = [aspect EXCEPT ![gca] = "equal"]
    /\ pc' = "zoom1_range"
    /\ UNCHANGED <<failedAt, run, fs, created, cacheState, defined, data, coords, t, I, sim,
                   simCalls, cacheWrites, S, p2p, norm, normsCreated, gca, axesList, artists,
                   frame, grid, vext, vext_p2p, estCalls, contourCalls, neuronCalls,
                   colorbarNorm, x1, x2, y1, y2, rec_zoom1, rec_zoom2, figPatches, pdfWrites>>

\* x1, x2 = (-180, -130); y1, y2 = (-50, 0)
Zoom1Range ==
    /\ pc = "zoom1_range"
    /\ x1' = -180
    /\ x2' = -130
    /\ y1' = -50
    /\ y2' = 0
    /\ defined' = defined \cup {"x1", "x2", "y1", "y2"}
    /\ pc' = "contour_zoom1"
    /\ UNCHANGED <<failedAt, run, fs, created, cacheState, data, coords, t, I, sim, simCalls,
                   cacheWrites, S, p2p, norm, normsCreated, gca, axesList, axlim, aspect,
                   artists, frame, grid, vext, vext_p2p, estCalls, contourCalls, neuronCalls,
                   colorbarNorm, rec_zoom1, rec_zoom2, figPatches, pdfWrites>>

\* plot_contour((x1, x2), (y1, y2), 5)
ContourZoom1 ==
    /\ pc = "contour_zoom1"
    /\ frame' = Call(<<x1, x2>>, <<y1, y2>>, 5, "zoom1_xlim")
    /\ pc' = "pc_grid"
    /\ UNCHANGED <<failedAt, run, fs, created, cacheState, defined, data, coords, t, I, sim,
                   simCalls, cacheWrites, S, p2p, norm, normsCreated, gca, axesList, axlim,
                   aspect, artists, grid, vext, vext_p2p, estCalls, contourCalls, neuronCalls,
                   colorbarNorm, x1, x2, y1, y2, rec_zoom1, rec_zoom2, figPatches, pdfWrites>>

\* plt.xlim((x1, x2))
Zoom1Xlim ==
    /\ pc = "zoom1_xlim"
    /\ axlim' = SetXlim(<<x1, x2>>)
    /\ pc' = "zoom1_ylim"
    /\ UNCHANGED <<failedAt, run, fs, created, cacheState, defined, data, coords, t, I, sim,
                   simCalls, cacheWrites, S, p2p, norm, normsCreated, gca, axesList, aspect,
                   artists, frame, grid, vext, vext_p2p, estCalls, contourCalls, neuronCalls,
                   colorbarNorm, x1, x2, y1, y2, rec_zoom1, rec_zoom2, figPatches, pdfWrites>>

\* plt.ylim((y1, y2))
Zoom1Ylim ==
    /\ pc = "zoom1_ylim"
    /\ axlim' = SetYlim(<<y1, y2>>)
    /\ pc' = "zoom1_text_a"
    /\ UNCHANGED <<failedAt, run, fs, created, cacheState, defined, data, coords, t, I, sim,
                   simCalls, cacheWrites, S, p2p, norm, normsCreated, gca, axesList, aspect,
                   artists, frame, grid, vext, vext_p2p, estCalls, contourCalls, neuronCalls,
                   colorbarNorm, x1, x2, y1, y2, rec_zoom1, rec_zoom2, figPatches, pdfWrites>>

\* plt.xticks([]); plt.yticks([]); plt.text(0.05, 0.85, 'a', ...)
Zoom1TextA ==
    /\ pc = "zoom1_text_a"
    /\ artists' = Draw(gca, <<"text">>)
    /\ pc' = "zoom1_text_soma"
    /\ UNCHANGED <<failedAt, run, fs, created, cacheState, defined, data, coords, t, I, sim,
                   simCalls, cacheWrites, S, p2p, norm, normsCreated, gca, axesList, axlim,
                   aspect, frame, grid, vext, vext_p2p, estCalls, contourCalls, neuronCalls,
                   colorbarNorm, x1, x2, y1, y2, rec_zoom1, rec_zoom2, figPatches, pdfWrites>>

\* plt.text(-170, -10, "soma", ...)
Zoom1TextSoma ==
    /\ pc = "zoom1_text_soma"
    /\ artists' = Draw(gca, <<"text">>)
    /\ pc' = "rec_zoom1"
    /\ UNCHANGED <<failedAt, run, fs, created, cacheState, defined, data, coords, t, I, sim,
                   simCalls, cacheWrites, S, p2p, norm, normsCreated, gca, axesList, axlim,
                   aspect, frame, grid, vext, vext_p2p, estCalls, contourCalls, neuronCalls,
                   colorbarNorm, x1, x2, y1, y2, rec_zoom1, rec_zoom2, figPatches, pdfWrites>>

\* rec_zoom1 = patches.Rectangle((x1, y1), x2-x1, y2-y1, transform=ax.transData, ...)
RecZoom1 ==
    /\ pc = "rec_zoom1"
    /\ rec_zoom1' = Rectangle(x1, x2, y1, y2)
    /\ defined' = defined \cup {"rec_zoom1"}
    /\ pc' = "rec_zoom1_append"
    /\ UNCHANGED <<failedAt, run, fs, created, cacheState, data, coords, t, I, sim, simCalls,
                   cacheWrites, S, p2p, norm, normsCreated, gca, axesList, axlim, aspect,
                   artists, frame, grid, vext, vext_p2p, estCalls, contourCalls, neuronCalls,
                   colorbarNorm, x1, x2, y1, y2, rec_zoom2, figPatches, pdfWrites>>

\* fig.patches.append(rec_zoom1)
RecZoom1Append ==
    /\ pc = "rec_zoom1_append"
    /\ figPatches' = Append(figPatches, rec_zoom1)
    /\ pc' = "zoom2_axes"
    /\ UNCHANGED <<failedAt, run, fs, created, cacheState, defined, data, coords, t, I, sim,
                   simCalls, cacheWrites, S, p2p, norm, normsCreated, gca, axesList, axlim,
                   aspect, artists, frame, grid, vext, vext_p2p, estCalls, contourCalls,
                   neuronCalls, colorbarNorm, x1, x2, y1, y2, rec_zoom1, rec_zoom2, pdfWrites>>

\* ax_zoom2 = plt.axes([0.65, 0.5, 0.2, 0.2], axisbg=bg_color)
Zoom2Axes ==
    /\ pc = "zoom2_axes"
    /\ axesList' = Append(axesList, "ax_zoom2")
    /\ gca' = "ax_zoom2"
    /\ defined' = defined \cup {"ax_zoom2"}
    /\ pc' = "zoom2_range"
    /\ UNCHANGED <<failedAt, run, fs, created, cacheState, data, coords, t, I, sim, simCalls,
                   cacheWrites, S, p2p, norm, normsCreated, axlim, aspect, artists, frame, grid,
                   vext, vext_p2p, estCalls, contourCalls, neuronCalls, colorbarNorm, x1, x2, y1,
                   y2, rec_zoom1, rec_zoom2, figPatches, pdfWrites>>

\* x1, x2 = (-180, -130); y1, y2 = (-165, -115)
Zoom2Range ==
    /\ pc = "zoom2_range"
    /\ x1' = -180
    /\ x2' = -130
    /\ y1' = -165
    /\ y2' = -115
    /\ pc' = "contour_zoom2"
    /\ UNCHANGED <<failedAt, run, fs, created, cacheState, defined, data, coords, t, I, sim,
                   simCalls, cacheWrites, S, p2p, norm, normsCreated, gca, axesList, axlim,
                   aspect, artists, frame, grid, vext, vext_p2p, estCalls, contourCalls,
                   neuronCalls, colorbarNorm, rec_zoom1, rec_zoom2, figPatches, pdfWrites>>

\* plot_contour((x1, x2), (y1, y2), 5)
ContourZoom2 ==
    /\ pc = "contour_zoom2"
    /\ frame' = Call(<<x1, x2>>, <<y1, y2>>, 5, "neuron_zoom2")
    /\ pc' = "pc_grid"
    /\ UNCHANGED <<failedAt, run, fs, created, cacheState, defined, data, coords, t, I, sim,
                   simCalls, cacheWrites, S, p2p, norm, normsCreated, gca, axesList, axlim,
                   aspect, artists, grid, vext, vext_p2p, estCalls, contourCalls, neuronCalls,
                   colorbarNorm, x1, x2, y1, y2, rec_zoom1, rec_zoom2, figPatches, pdfWrites>>

\* graph.plot_neuron(coords, p2p, norm=norm, ...) on the axon zoom
NeuronZoom2 ==
    /\ pc = "neuron_zoom2"
    /\ {"coords", "p2p", "norm"} \subseteq defined
    /\ neuronCalls' = Append(neuronCalls, PlotNeuronCall(gca, norm))
    /\ artists' = Draw(gca, <<"neuron">>)
    /\ pc' = "zoom2_scaled"
    /\ UNCHANGED <<failedAt, run, fs, created, cacheState, defined, data, coords, t, I, sim,
                   simCalls, cacheWrites, S, p2p, norm, normsCreated, gca, axesList, axlim,
                   aspect, frame, grid, vext, vext_p2p, estCalls, contourCalls, colorbarNorm, x1,
                   x2, y1, y2, rec_zoom1, rec_zoom2, figPatches, pdfWrites>>

\* plt.axis('scaled'): the limits become those of the data drawn, the aspect equal
Zoom2Scaled ==
    /\ pc = "zoom2_scaled"
    /\ \E lim \in DataLimits : axlim' = [axlim EXCEPT ![gca] = lim]
    /\ aspect' = [aspect EXCEPT ![gca] = "equal"]
    /\ pc' = "zoom2_xlim"
    /\ UNCHANGED <<failedAt, run, fs, created, cacheState, defined, data, coords, t, I, sim,
                   simCalls, cacheWrites, S, p2p, norm, normsCreated, gca, axesList, artists,
                   frame, grid, vext, vext_p2p, estCalls, contourCalls, neuronCalls,
                   colorbarNorm, x1, x2, y1, y2, rec_zoom1, rec_zoom2, figPatches, pdfWrites>>

\* plt.xlim((x1, x2))
Zoom2Xlim ==
    /\ pc = "zoom2_xlim"
    /\ axlim' = SetXlim(<<x1, x2>>)
    /\ pc' = "zoom2_ylim"
    /\ UNCHANGED <<failedAt, run, fs, created, cacheState, defined, data, coords, t, I, sim,
                   simCalls, cacheWrites, S, p2p, norm, normsCreated, gca, axesList, aspect,
                   artists, frame, grid, vext, vext_p2p, estCalls, contourCalls, neuronCalls,
                   colorbarNorm, x1, x2, y1, y2, rec_zoom1, rec_zoom2, figPatches, pdfWrites>>

\* plt.ylim((y1, y2))
Zoom2Ylim ==
    /\ pc = "zoom2_ylim"
    /\ axlim' = SetYlim(<<y1, y2>>)
    /\ pc' = "zoom2_text_b"
    /\ UNCHANGED <<failedAt, run, fs, created, cacheState, defined, data, coords, t, I, sim,
                   simCalls, cacheWrites, S, p2p, norm, normsCreated, gca, axesList, aspect,
                   artists, frame, grid, vext, vext_p2p, estCalls, contourCalls, neuronCalls,
                   colorbarNorm, x1, x2, y1, y2, rec_zoom1, rec_zoom2, figPatches, pdfWrites>>

\* plt.xticks([]); plt.yticks([]); plt.text(0.05, 0.85, 'b', ...)
Zoom2TextB ==
    /\ pc = "zoom2_text_b"
    /\ artists' = Draw(gca, <<"text">>)
    /\ pc' = "rec_zoom2"
    /\ UNCHANGED <<failedAt, run, fs, created, cacheState, defined, data, coords, t, I, sim,
                   simCalls, cacheWrites, S, p2p, norm, normsCreated, gca, axesList, axlim,
                   aspect, frame, grid, vext, vext_p2p, estCalls, contourCalls, neuronCalls,
                   colorbarNorm, x1, x2, y1, y2, rec_zoom1, rec_zoom2, figPatches, pdfWrites>>

\* rec_zoom2 = patches.Rectangle((x1, y1), x2-x1, y2-y1, transform=ax.transData, ...)
RecZoom2 ==
    /\ pc = "rec_zoom2"
    /\ rec_zoom2' = Rectangle(x1, x2, y1, y2)
    /\ defined' = defined \cup {"rec_zoom2"}
    /\ pc' = "rec_zoom2_append"
    /\ UNCHANGED <<failedAt, run, fs, created, cacheState, data, coords, t, I, sim, simCalls,
                   cacheWrites, S, p2p, norm, normsCreated, gca, axesList, axlim, aspect,
                   artists, frame, grid, vext, vext_p2p, estCalls, contourCalls, neuronCalls,
                   colorbarNorm, x1, x2, y1, y2, rec_zoom1, figPatches, pdfWrites>>

\* fig.patches.append(rec_zoom2)
RecZoom2Append ==
    /\ pc = "rec_zoom2_append"
    /\ figPatches' = Append(figPatches, rec_zoom2)
    /\ pc' = "savefig"
    /\ UNCHANGED <<failedAt, run, fs, created, cacheState, defined, data, coords, t, I, sim,
                   simCalls, cacheWrites, S, p2p, norm, normsCreated, gca, axesList, axlim,
                   aspect, artists, frame, grid, vext, vext_p2p, estCalls, contourCalls,
                   neuronCalls, colorbarNorm, x1, x2, y1, y2, rec_zoom1, rec_zoom2, pdfWrites>>

\* plt.savefig('hunter.pdf', facecolor=fig.get_facecolor())
Savefig ==
    /\ pc = "savefig"
    /\ pdfWrites' = pdfWrites + 1
    /\ pc' = "done"
    /\ UNCHANGED <<failedAt, run, fs, created, cacheState, defined, data, coords, t, I, sim,
                   simCalls, cacheWrites, S, p2p, norm, normsCreated, gca, axesList, axlim,
                   aspect, artists, frame, grid, vext, vext_p2p, estCalls, contourCalls,
                   neuronCalls, colorbarNorm, x1, x2, y1, y2, rec_zoom1, rec_zoom2, figPatches>>

-----------------------------------------------------------------------------
\* An uncaught exception of a statement that calls into a library ends the
\* script; the statement then has had no effect on the state kept here.
CanRaise == {"import_numpy", "import_pyplot", "import_colors", "import_ticker",
             "import_patches", "import_cm", "import_field", "import_graph", "cmap",
             "import_cell", "load_model", "initialize", "integrate", "get_seg_coords",
             "savez", "np_load", "load_coords", "load_t", "load_I",
             "pc_grid", "pc_estimate", "pc_p2p", "pc_logcontour",
             "figure", "subplot", "neuron_main", "main_xlim", "main_ylim",
             "scalebar_line1", "scalebar_line2", "scalebar_text1", "scalebar_text2",
             "cbar_axes", "cbar_fmt", "colorbar", "label1", "label2", "label3",
             "zoom1_axes", "neuron_zoom1", "zoom1_scaled", "zoom1_xlim", "zoom1_ylim",
             "zoom1_text_a", "zoom1_text_soma", "rec_zoom1", "rec_zoom1_append",
             "zoom2_axes", "neuron_zoom2", "zoom2_scaled", "zoom2_xlim", "zoom2_ylim",
             "zoom2_text_b", "rec_zoom2", "rec_zoom2_append", "savefig"}

RaiseSwallowed ==
    /\ pc \in CanRaise
    /\ pc' = "savefig"
    /\ failedAt' = pc
    /\ UNCHANGED <<run, fs, created, cacheState, defined, data, coords, t, I, sim, simCalls,
                   cacheWrites, S, p2p, norm, normsCreated, gca, axesList, axlim, aspect,
                   artists, frame, grid, vext, vext_p2p, estCalls, contourCalls, neuronCalls,
                   colorbarNorm, x1, x2, y1, y2, rec_zoom1, rec_zoom2, figPatches, pdfWrites>>
Raise ==
    /\ pc \in CanRaise
    /\ pc' = "failed"
    /\ failedAt' = pc
    /\ UNCHANGED <<run, fs, created, cacheState, defined, data, coords, t, I, sim, simCalls,
                   cacheWrites, S, p2p, norm, normsCreated, gca, axesList, axlim, aspect,
                   artists, frame, grid, vext, vext_p2p, estCalls, contourCalls, neuronCalls,
                   colorbarNorm, x1, x2, y1, y2, rec_zoom1, rec_zoom2, figPatches, pdfWrites>>

\* The script is started again; only the file system is kept.
Rerun ==
    /\ pc \in {"done", "failed"}
    /\ run < MaxRuns
    /\ run' = run + 1
    /\ pc' = "import_numpy"
    /\ failedAt' = ""
    /\ cacheState' = "unknown"
    /\ defined' = {}
    /\ data' = EmptyNpz
    /\ coords' = <<>>
    /\ t' = <<>>
    /\ I' = EmptyMatrix
    /\ sim' = [t |-> <<>>, I |-> EmptyMatrix]
    /\ simCalls' = <<>>
    /\ cacheWrites' = 0
    /\ S' = <<>>
    /\ p2p' = <<>>
    /\ norm' = NoNorm
    /\ normsCreated' = 0
    /\ gca' = "none"
    /\ axesList' = <<>>
    /\ axlim' = [a \in AxesNames |-> [x |-> <<0, 1>>, y |-> <<0, 1>>]]
    /\ aspect' = [a \in AxesNames |-> "auto"]
    /\ artists' = [a \in AxesNames |-> <<>>]
    /\ frame' = NoCall
    /\ grid' = NoGrid
    /\ vext' = NoField
    /\ vext_p2p' = NoField
    /\ estCalls' = <<>>
    /\ contourCalls' = <<>>
    /\ neuronCalls' = <<>>
    /\ colorbarNorm' = {}
    /\ x1' = 0
    /\ x2' = 0
    /\ y1' = 0
    /\ y2' = 0
    /\ rec_zoom1' = NoRect
    /\ rec_zoom2' = NoRect
    /\ figPatches' = <<>>
    /\ pdfWrites' = 0
    /\ UNCHANGED <<fs, created>>

Next ==
    \/ ImportNumpy \/ ImportPyplot \/ ImportColors \/ ImportTicker \/ ImportPatches
    \/ ImportCm \/ ImportField \/ ImportGraph \/ Setup \/ Cmap \/ CheckCache \/ ImportCell
    \/ LoadModel \/ Initialize \/ Integrate \/ GetSegCoords \/ RestrictI \/ RestrictT
    \/ Savez \/ NpLoad \/ LoadCoords \/ LoadT \/ LoadI \/ CalcGrid \/ EstimateOnGrid
    \/ VextP2P \/ LogContour \/ Figure \/ Subplot \/ ContourMain \/ SegSurface \/ P2P
    \/ Norm \/ NeuronMain \/ MainXlim \/ MainYlim \/ ScalebarVars \/ ScalebarLine1
    \/ ScalebarLine2 \/ ScalebarText1 \/ ScalebarText2 \/ CbarAxes \/ CbarFmt \/ Colorbar
    \/ Label1 \/ Label2 \/ Label3 \/ Zoom1Axes \/ NeuronZoom1 \/ Zoom1Scaled \/ Zoom1Range
    \/ ContourZoom1 \/ Zoom1Xlim \/ Zoom1Ylim \/ Zoom1TextA \/ Zoom1TextSoma \/ RecZoom1
    \/ RecZoom1Append \/ Zoom2Axes \/ Zoom2Range \/ ContourZoom2 \/ NeuronZoom2
    \/ Zoom2Scaled \/ Zoom2Xlim \/ Zoom2Ylim \/ Zoom2TextB \/ RecZoom2 \/ RecZoom2Append
    \/ Savefig \/ Raise \/ Rerun

Spec == Init /\ [][Next]_vars

\* Properties.

LoadPcs == {"np_load", "load_coords", "load_t", "load_I"}
SimPcs == {"import_cell", "load_model", "initialize", "integrate", "get_seg_coords",
            "restrict_I", "restrict_t", "savez"}
StartPcs == {"import_numpy", "import_pyplot", "import_colors", "import_ticker",
             "import_patches", "import_cm", "import_field", "import_graph",
             "setup", "cmap", "check_cache"}
PrePlot == StartPcs \cup SimPcs \cup LoadPcs
\* the run has reached the first plotting statement (line 67)
Plotting == \/ pc \notin PrePlot \cup {"failed"}
            \/ (pc = "failed" /\ failedAt \notin PrePlot)
Panels == {"ax", "ax_zoom1", "ax_zoom2"}

\* C1: a run that finds no cache file calls the simulator (load_model,
\* initialize, integrate, get_seg_coords) and writes the cache before the
\* first plotting statement; a run that finds the cache never calls the
\* simulator and never writes the cache; coords, t and I are bound before
\* the first plotting statement either way.
C1_CacheGate ==
    /\ (cacheState = "absent" /\ Plotting) =>
          /\ simCalls = <<"load_model", "initialize", "integrate", "get_seg_coords">>
          /\ cacheWrites = 1
          /\ fs.present
          /\ fs.arrays.coords = coords /\ fs.arrays.I = I /\ fs.arrays.t = t
    /\ cacheState = "present" =>
          /\ simCalls = <<>>
          /\ cacheWrites = 0
          /\ "cell" \notin defined
    /\ Plotting => {"coords", "t", "I"} \subseteq defined
C1_Witness ==
    /\ cacheState = "absent" /\ pc = "done" /\ cacheWrites = 1 /\ Len(simCalls) = 4

\* C2: a failure of the import, of a simulator call or of loading the cache
\* ends the run with no figure written; savefig is the last statement, runs
\* at most once per run and only after every loading and plotting statement
\* has succeeded.
C2_FigureLast ==
    /\ pdfWrites <= 1
    /\ pc = "failed" => pdfWrites = 0
    /\ failedAt \in PrePlot => (pc = "failed" /\ axesList = <<>> /\ ~Plotting)
    /\ pdfWrites = 1 =>
          /\ pc = "done" /\ failedAt = ""
          /\ {"coords", "t", "I", "p2p", "norm"} \subseteq defined
          /\ axesList = <<"ax", "ax_cbar", "ax_zoom1", "ax_zoom2">>
          /\ Len(estCalls) = 3 /\ Len(contourCalls) = 3
          /\ Len(neuronCalls) = 3 /\ Len(figPatches) = 2
C2_Witness ==
    /\ pc = "failed" /\ cacheState = "absent" /\ failedAt = "import_cell" /\ pdfWrites = 0

\* C3: when the number of segment records differs from the number of current
\* columns, the run stops before any field estimation or morphology drawing
\* and writes no figure.
C3_MismatchStops ==
    ({"coords", "I"} \subseteq defined /\ Len(coords) # I.ncols) =>
        (estCalls = <<>> /\ neuronCalls = <<>> /\ pdfWrites = 0)

\* peak-to-peak of column s of the current array, from the array itself
ColumnRange(s) ==
    CHOOSE r \in {I.rows[k][s] - I.rows[j][s] : k \in 1..Len(I.rows), j \in 1..Len(I.rows)} :
        \A k \in 1..Len(I.rows), j \in 1..Len(I.rows) : r >= I.rows[k][s] - I.rows[j][s]

\* C4: one normalization object is created per run, its limits are the least
\* and greatest peak-to-peak current over all segments, and that object and
\* the colormap are the ones every plot_neuron call (main panel and both
\* zooms) and the colour bar receive.
C4_NormShared ==
    /\ normsCreated <= 1
    /\ "norm" \in defined =>
          /\ normsCreated = 1 /\ norm.id = 1
          /\ \A s \in 1..I.ncols : norm.vmin <= ColumnRange(s) /\ ColumnRange(s) <= norm.vmax
          /\ \E s \in 1..I.ncols : norm.vmin = ColumnRange(s)
          /\ \E s \in 1..I.ncols : norm.vmax = ColumnRange(s)
    /\ \A k \in 1..Len(neuronCalls) :
          neuronCalls[k].norm = norm /\ neuronCalls[k].cmap = cmap
    /\ colorbarNorm \subseteq {norm.id}
    /\ pc = "done" =>
          /\ Len(neuronCalls) = 3
          /\ {neuronCalls[k].axes : k \in 1..3} = Panels
C4_Witness ==
    /\ pc = "done" /\ Len(neuronCalls) = 3 /\ norm.vmin < norm.vmax /\ norm.vmin > 0

ZoomAxes == <<"ax_zoom1", "ax_zoom2">>

\* C5: each zoom panel gets exactly one rectangle, in the main panel's data
\* coordinates, whose corner, width and height are the limits set on that
\* zoom panel and the ranges given to that panel's contour computation.
C5_ZoomRectangles ==
    /\ Len(figPatches) <= 2
    /\ pc = "done" => Len(figPatches) = 2
    /\ \A k \in 1..Len(figPatches) :
          LET z == ZoomAxes[k]
              r == figPatches[k]
              own == {c \in 1..Len(estCalls) : estCalls[c].panel = z}
          IN  /\ r.transform = "ax.transData"
              /\ r.xy = <<axlim[z].x[1], axlim[z].y[1]>>
              /\ r.width = axlim[z].x[2] - axlim[z].x[1]
              /\ r.height = axlim[z].y[2] - axlim[z].y[1]
              /\ Cardinality(own) = 1
              /\ \A c \in own : /\ estCalls[c].x_range = axlim[z].x
                                /\ estCalls[c].y_range = axlim[z].y
C5_Witness ==
    /\ pc = "done" /\ Len(figPatches) = 2
    /\ figPatches[1].xy = <<-180, -50>> /\ figPatches[2].xy = <<-180, -165>>
    /\ figPatches[1].width = 50 /\ figPatches[2].height = 50

\* C6: a degenerate field (all zero, or min equal to max) is detected and its
\* contour step skipped: logcontour is never handed such a field.
C6_DegenerateSkipped ==
    \A k \in 1..Len(contourCalls) : contourCalls[k].zz.min # contourCalls[k].zz.max

\* C7: a run that loads a cache written by an earlier run plots with exactly
\* the coords, t and I the writing run plotted with (the arrays as they were
\* after the time-window restriction).
C7_RoundTrip ==
    (created.valid /\ Plotting /\ (cacheWrites = 1 \/ cacheState = "present")) =>
        /\ coords = created.arrays.coords
        /\ t = created.arrays.t
        /\ I = created.arrays.I
C7_Witness ==
    /\ run > 1 /\ cacheState = "present" /\ created.valid /\ pc = "done"
    /\ Len(t) > 0 /\ Len(coords) > 0

\* C8: every call of the field estimator receives the configured resistivity rho.
C8_RhoPassed ==
    \A k \in 1..Len(estCalls) : estCalls[k].resistivity = {rho}

\* C9: on each panel the contour is drawn before the neuron, and every panel
\* is drawn before the figure is saved.
C9_ContourFirst ==
    /\ \A a \in Panels : \A i, j \in 1..Len(artists[a]) :
          (artists[a][i] = "contour" /\ artists[a][j] = "neuron") => i < j
    /\ pdfWrites = 1 =>
          \A a \in Panels : \E i, j \in 1..Len(artists[a]) :
              artists[a][i] = "contour" /\ artists[a][j] = "neuron"

\* the restriction of lines 57-58 has been carried out in this run
Restricted ==
    /\ cacheState = "absent"
    /\ \/ Plotting
       \/ pc = "savez"
       \/ (pc = "failed" /\ failedAt = "savez")

\* C10: on the compute path I and t are cut by one mask taken from the
\* unrestricted t: afterwards I has as many rows as t has entries, every kept
\* time is strictly between t0 and t1, row k of I is the simulator's row for
\* the time t[k], and the number of columns of I is unchanged.
C10_SameMask ==
    Restricted =>
        LET kept == {j \in 1..Len(sim.t) : t0 < sim.t[j] /\ sim.t[j] < t1} IN
        /\ Len(I.rows) = Len(t)
        /\ Len(t) = Cardinality(kept)
        /\ \A k \in 1..Len(t) : t0 < t[k] /\ t[k] < t1
        /\ I.ncols = sim.I.ncols
        /\ \A j \in kept :
              LET k == Cardinality({i \in kept : i <= j}) IN
              t[k] = sim.t[j] /\ I.rows[k] = sim.I.rows[j]
C10_Witness ==
    /\ Restricted /\ pc = "figure"
    /\ Len(t) > 0 /\ Len(t) < Len(sim.t) /\ I.ncols > 0 /\ I.rows[1][1] > 0
====
